---- MODULE Spec2Model ----
(***************************************************************************)
(* Model of the poem harvester of src/main.py: load_or_scrape, scrape_all  *)
(* and the functions they call, with the dataset file, the target site and *)
(* the politeness delays.                                                  *)
(*                                                                         *)
(* Strings are sequences of one-character strings, so that strip, lower    *)
(* and the trailing-slash rule of norm_url are computed and not assumed.   *)
(* The character "h" stands for the origin prefix "https://www.poetica.fr" *)
(* of an absolute URL: startswith("http") is Head(u) = "h".                *)
(* None and the empty string are both the empty sequence: the code only    *)
(* tests them for truthiness.                                              *)
(***************************************************************************)
EXTENDS Integers, Sequences, FiniteSets, TLC

\* ------------------------------ bounds ---------------------------------
\* Fetches that may fail over the whole behaviour (all runs together).
MaxFailures == 2
\* Process runs: the first one plus the restarts.
MaxRuns == 2
\* CACHE_INTERMEDIATE_EVERY (src/main.py:63 sets 100), scaled down so that
\* intermediate saves happen on the site below.
CACHE_INTERMEDIATE_EVERY == 2

\* The longest text of a card outside its title link and its comment link,
\* and the longest text of a comment link, that the parser is run on.
MaxBody == 4
MaxLink == 1

\* The most records the input file of the enrichment utility holds.
MaxInput == 3

\* The most deferred refreshes the window schedules, and the most CSV
\* exports the user makes.
MaxJobs == 2
MaxExports == 1

\* The milliseconds by which the clock of the window advances in one step.
TickMs == 90

\* ------------------------------ strings --------------------------------
LowerChar(c) ==
    CASE c = "A" -> "a"
      [] c = "B" -> "b"
      [] c = "N" -> "n"
      [] c = "P" -> "p"
      [] c = "Q" -> "q"
      [] c = "R" -> "r"
      [] c = "S" -> "s"
      [] OTHER -> c

\* str.lower()
Lower(s) == [i \in 1..Len(s) |-> LowerChar(s[i])]

RECURSIVE LStrip(_)
LStrip(s) == IF s # <<>> /\ Head(s) = " " THEN LStrip(Tail(s)) ELSE s

RECURSIVE RStrip(_)
RStrip(s) ==
    IF s # <<>> /\ s[Len(s)] = " " THEN RStrip(SubSeq(s, 1, Len(s) - 1)) ELSE s

\* str.strip()
Strip(s) == RStrip(LStrip(s))

\* norm_url: strip, drop one trailing slash, lower-case.
norm_url(u) ==
    IF u = <<>> THEN <<>>
    ELSE LET v == Strip(u) IN
         IF v = <<>> THEN <<>>
         ELSE IF v[Len(v)] = "/" THEN Lower(SubSeq(v, 1, Len(v) - 1))
              ELSE Lower(v)

\* str.startswith("http")
StartsWithHttp(u) == u # <<>> /\ Head(u) = "h"

\* The part of a URL up to and including its last "/".
RECURSIVE DirOf(_)
DirOf(u) ==
    IF u = <<>> \/ u[Len(u)] = "/" THEN u ELSE DirOf(SubSeq(u, 1, Len(u) - 1))

\* urllib.parse.urljoin on the URLs of the model: an absolute reference is
\* kept, a root-relative one is put under the origin, any other replaces the
\* last path segment of the base.
urljoin(base, ref) ==
    IF ref = <<>> THEN base
    ELSE IF Head(ref) = "h" THEN ref
    ELSE IF Head(ref) = "/" THEN <<"h">> \o ref
    ELSE DirOf(base) \o ref

BASE_URL == <<"h", "/">>

\* The elements of a sequence.
Range(s) == {s[i] : i \in 1..Len(s)}

\* ------------------------------ the site -------------------------------
\* What the target site serves. Every fetch may also fail (see the actions).
A1url == <<"h", "/", "a", "/">>
A2url == <<"h", "/", "B">>
Page2url == <<"h", "/", "a", "/", "2">>
Page3url == <<"h", "/", "a", "/", "3">>
Purl == <<"h", "/", "p">>
Qurl == <<"h", "/", "q">>
Rurl == <<"h", "/", "r">>
Surl == <<"h", "/", "s">>
ThemeNurl == <<"h", "/", "n", "/">>
ThemeMurl == <<"h", "/", "m">>

\* The <a> elements of #menu-poemes-par-auteur on the root page: two
\* authors and an anchor without text.
RootAnchors ==
    << [text |-> <<"A">>, href |-> A1url],
       [text |-> <<" ">>, href |-> <<"h", "/", "x">>],
       [text |-> <<"B">>, href |-> <<" ">> \o A2url] >>

\* The root pages the site may serve: no author menu, or the menu above.
RootChoices == {<<>>, RootAnchors}

\* What a card shows besides its title: the text of its other elements and,
\* when it has a span.comments-link, that element's text (which comes last).
\* "c" and "C" stand for the word "commentaire" in lower and upper case.
Shown(body, cl) == [body |-> body, cl |-> cl]
NoIndicator == Shown(<<>>, <<>>)

\* A card (article.post) of a listing page: whether it has a title link, the
\* link's text and href, and what else the card shows.
Card(haslink, text, href, shown) ==
    [haslink |-> haslink, text |-> text, href |-> href,
     body |-> shown.body, cl |-> shown.cl]

\* The listing pages, by URL: cards in document order, the href of the
\* a[rel=next] link and of the a.next.page-numbers link (empty when absent).
\* Author A: three pages, the second without any card that has a title
\* link, the third linking back to the first (a cycle); a poem listed twice.
\* Author B: one page, which lists a poem of author A again.
ListingUrls == {A1url, Page2url, Page3url, A2url}

ListingPage(u) ==
    CASE u = A1url ->
           [cards |-> << Card(TRUE, <<"P">>, <<"/", "p">>,
                              Shown(<<"1", "2", " ", "c">>, <<>>)),
                         Card(TRUE, <<"Q">>, Qurl, Shown(<<"x">>, << <<"5">> >>)),
                         Card(TRUE, <<"P">>, Purl,
                              Shown(<<"1", "2", " ", "c">>, <<>>)) >>,
            relNext |-> <<"2">>, classNext |-> <<>>]
      [] u = Page2url ->
           [cards |-> << Card(FALSE, <<>>, <<>>, NoIndicator) >>,
            relNext |-> <<"3">>, classNext |-> <<>>]
      [] u = Page3url ->
           [cards |-> << Card(TRUE, <<" ", "R">>, <<"/", "r">>, NoIndicator) >>,
            relNext |-> <<>>, classNext |-> <<"/", "a", "/">>]
      [] u = A2url ->
           [cards |-> << Card(TRUE, <<"P", "2">>, Purl, Shown(<<"7", "C">>, <<>>)),
                         Card(TRUE, <<"S">>, <<"/", "s">>,
                              Shown(<<"x">>, << <<"5", " ", "x">> >>)) >>,
            relNext |-> <<>>, classNext |-> <<>>]
      [] OTHER -> [cards |-> <<>>, relNext |-> <<>>, classNext |-> <<>>]

\* A category link of a poem page: href, text, and the selectors of
\* fetch_poem_themes (1..5, in the order of its list) that match it.
Link(href, txt, sels) == [href |-> href, txt |-> txt, sels |-> sels]

\* The poem pages, by URL: their category links in document order.
\*   p: a root-relative link to author A's archive, and a theme;
\*   q: a link to author B's archive in another case, a theme twice, and
\*      another theme that only the fourth selector matches;
\*   r: author A's archive and a theme (the scenario of the two links);
\*   s: only an author link under the first selectors, a theme and a link
\*      without text under the fourth.
DetailUrls == {Purl, Qurl, Rurl, Surl}

DetailLinks(u) ==
    CASE u = Purl -> << Link(<<"/", "a", "/">>, <<"A">>, {1, 4}),
                        Link(ThemeNurl, <<"N">>, {1, 4}) >>
      [] u = Qurl -> << Link(<<"h", "/", "b", "/">>, <<"B">>, {1, 2}),
                        Link(ThemeNurl, <<"N">>, {1, 2}),
                        Link(ThemeNurl, <<" ", "N">>, {1}),
                        Link(ThemeMurl, <<"M">>, {4}) >>
      [] u = Rurl -> << Link(A1url, <<"A">>, {1, 4}),
                        Link(<<" ">> \o ThemeNurl, <<"N">>, {1, 4}) >>
      [] u = Surl -> << Link(A1url, <<"A">>, {1, 2}),
                        Link(ThemeMurl, <<" ">>, {4}),
                        Link(ThemeMurl, <<"M">>, {4, 5}) >>
      [] OTHER -> <<>>

\* ------------------------------ the parser -----------------------------
\* extract_menus: the author entries of the root page, [] when the fetch
\* failed; an entry needs a non-empty url and a non-empty name.
RECURSIVE MenuEntries(_)
MenuEntries(anchors) ==
    IF anchors = <<>> THEN <<>>
    ELSE LET a == Head(anchors)
             name == Strip(a.text)
             url == Strip(a.href)
         IN (IF url # <<>> /\ name # <<>>
             THEN << [name |-> name, url |-> url] >> ELSE <<>>)
            \o MenuEntries(Tail(anchors))

extract_menus(ok, anchors) == IF ok THEN MenuEntries(anchors) ELSE <<>>

\* The characters \d matches, and their values.
Digits == {"0", "1", "2", "3", "4", "5", "6", "7", "8", "9"}
IsDigit(c) == c \in Digits
DigitVal(c) ==
    CASE c = "0" -> 0 [] c = "1" -> 1 [] c = "2" -> 2 [] c = "3" -> 3
      [] c = "4" -> 4 [] c = "5" -> 5 [] c = "6" -> 6 [] c = "7" -> 7
      [] c = "8" -> 8 [] c = "9" -> 9

\* int() of a string of digits.
RECURSIVE IntOf(_)
IntOf(ds) ==
    IF ds = <<>> THEN 0
    ELSE IntOf(SubSeq(ds, 1, Len(ds) - 1)) * 10 + DigitVal(ds[Len(ds)])

\* "commentaire" under re.I.
IsToken(c) == c \in {"c", "C"}

\* " ".join(stripped_strings): the strings stripped, the empty ones dropped,
\* one space between two.
RECURSIVE JoinStripped(_)
JoinStripped(strings) ==
    IF strings = <<>> THEN <<>>
    ELSE LET h == Strip(Head(strings))
             t == JoinStripped(Tail(strings))
         IN IF h = <<>> THEN t
            ELSE IF t = <<>> THEN h
            ELSE h \o <<" ">> \o t

\* The end of the longest series of digits of t that starts at i (greedy \d+).
RECURSIVE DigitsEnd(_, _)
DigitsEnd(t, i) ==
    IF i < Len(t) /\ IsDigit(t[i + 1]) THEN DigitsEnd(t, i + 1) ELSE i

\* The first place at or after i that holds no white space (\s*).
RECURSIVE SkipSpaces(_, _)
SkipSpaces(t, i) ==
    IF i <= Len(t) /\ t[i] = " " THEN SkipSpaces(t, i + 1) ELSE i

\* (\d+)\s*commentaire matches at i. Giving digits back cannot help: what
\* follows a shorter series is a digit.
MatchesAt(t, i) ==
    /\ IsDigit(t[i])
    /\ LET k == SkipSpaces(t, DigitsEnd(t, i) + 1)
       IN k <= Len(t) /\ IsToken(t[k])

\* re.search(r"(\d+)\s*commentaire", t, re.I) from place i on: <<>> without
\* a match, else the group as a one-element sequence.
RECURSIVE SearchCount(_, _)
SearchCount(t, i) ==
    IF i > Len(t) THEN <<>>
    ELSE IF MatchesAt(t, i) THEN << SubSeq(t, i, DigitsEnd(t, i)) >>
    ELSE SearchCount(t, i + 1)

\* re.search(r"(\d+)", t) from place i on.
RECURSIVE SearchNumber(_, _)
SearchNumber(t, i) ==
    IF i > Len(t) THEN <<>>
    ELSE IF IsDigit(t[i]) THEN << SubSeq(t, i, DigitsEnd(t, i)) >>
    ELSE SearchNumber(t, i + 1)

\* Line 145: the visible text of a card.
ArticleText(article) ==
    JoinStripped(<<article.text, article.body>> \o article.cl)

\* Line 151: cl.get_text(" ", strip=True).
LinkText(article) == Strip(article.cl[1])

\* A faulty variant of parse_comments_from_article: the comment link is
\* looked at first.
parse_comments_link_first(article) ==
    LET l == IF article.cl # <<>> THEN SearchNumber(LinkText(article), 1) ELSE <<>>
        m == SearchCount(ArticleText(article), 1)
    IN IF l # <<>> THEN IntOf(l[1])
       ELSE IF m # <<>> THEN IntOf(m[1])
       ELSE 0

parse_comments_from_article(article) ==
    LET m == SearchCount(ArticleText(article), 1) IN
    IF m # <<>> THEN IntOf(m[1])
    ELSE IF article.cl # <<>> /\ SearchNumber(LinkText(article), 1) # <<>>
         THEN IntOf(SearchNumber(LinkText(article), 1)[1])
    ELSE 0

\* extract_poems_from_listing: the stubs of a listing page, [] when the
\* fetch failed; a card without title link is skipped.
RECURSIVE StubsOfCards(_)
StubsOfCards(cards) ==
    IF cards = <<>> THEN <<>>
    ELSE LET c == Head(cards)
             href == c.href
             u == IF StartsWithHttp(href) THEN href ELSE urljoin(BASE_URL, href)
         IN (IF c.haslink
             THEN << [title |-> Strip(c.text), url |-> u,
                      comments |-> parse_comments_from_article(c)] >>
             ELSE <<>>)
            \o StubsOfCards(Tail(cards))

extract_poems_from_listing(ok, listing_url) ==
    IF ok THEN StubsOfCards(ListingPage(listing_url).cards) ELSE <<>>

\* find_next_page: the a[rel=next] href, else the a.next.page-numbers href,
\* else None.
find_next_page(page) ==
    IF page.relNext # <<>> THEN page.relNext
    ELSE IF page.classNext # <<>> THEN page.classNext
    ELSE <<>>

\* A faulty variant of NextUrl: the next-page link of a page that yielded
\* no stub is not followed.
NextUrlOfFilledPage(url) ==
    LET next_url == find_next_page(ListingPage(url)) IN
    IF StubsOfCards(ListingPage(url).cards) = <<>> THEN <<>>
    ELSE IF next_url # <<>> /\ ~StartsWithHttp(next_url) THEN urljoin(url, next_url)
    ELSE next_url

\* The walker's next URL after a fetched page (lines 195-198).
NextUrl(url) ==
    LET next_url == find_next_page(ListingPage(url)) IN
    IF next_url # <<>> /\ ~StartsWithHttp(next_url) THEN urljoin(url, next_url)
    ELSE next_url

\* The selectors of fetch_poem_themes, in order.
NumSelectors == 5

\* Line 235: the link's normalized target is an author URL.
IsAuthorLink(href, author_urls_norm) == norm_url(href) \in author_urls_norm

\* Lines 229-238 for the links one selector matches: acc holds the themes so
\* far and, as a record of where they came from, the links they were read from.
RECURSIVE ScanLinks(_, _, _)
ScanLinks(links, author_urls_norm, acc) ==
    IF links = <<>> THEN acc
    ELSE LET a == Head(links)
             href == Strip(a.href)
             txt == Strip(a.txt)
             rest == Tail(links)
         IN IF txt = <<>> THEN ScanLinks(rest, author_urls_norm, acc)
            ELSE IF IsAuthorLink(href, author_urls_norm)
                 THEN ScanLinks(rest, author_urls_norm, acc)
            ELSE IF txt \notin Range(acc.themes)
                 THEN ScanLinks(rest, author_urls_norm,
                                [themes |-> Append(acc.themes, txt),
                                 kept |-> Append(acc.kept, href)])
            ELSE ScanLinks(rest, author_urls_norm, acc)

\* A faulty variant of TrySelectors: every selector is consulted, whatever
\* the earlier ones gave.
RECURSIVE TrySelectorsMerged(_, _, _, _)
TrySelectorsMerged(sel, links, author_urls_norm, acc) ==
    IF sel > NumSelectors THEN acc
    ELSE TrySelectorsMerged(sel + 1, links, author_urls_norm,
             ScanLinks(SelectSeq(links, LAMBDA a : sel \in a.sels),
                       author_urls_norm, acc))

\* Lines 228-240: the selectors in order, stopping at the first that left a
\* theme.
RECURSIVE TrySelectors(_, _, _, _)
TrySelectors(sel, links, author_urls_norm, acc) ==
    IF sel > NumSelectors THEN acc
    ELSE LET matched == SelectSeq(links, LAMBDA a : sel \in a.sels)
             res == ScanLinks(matched, author_urls_norm, acc)
         IN IF res.themes # <<>> THEN res
            ELSE TrySelectors(sel + 1, links, author_urls_norm, res)

\* fetch_poem_themes with the links each theme was read from; [] when the
\* fetch failed.
ResolveThemes(ok, poem_url, author_urls_norm) ==
    IF ok THEN TrySelectors(1, DetailLinks(poem_url), author_urls_norm,
                            [themes |-> <<>>, kept |-> <<>>])
    ELSE [themes |-> <<>>, kept |-> <<>>]

\* A faulty variant of fetch_poem_themes: the themes of the page come back
\* whatever became of the fetch.
fetch_poem_themes_unfailing(ok, poem_url, author_urls_norm) ==
    ResolveThemes(TRUE, poem_url, author_urls_norm).themes

fetch_poem_themes(ok, poem_url, author_urls_norm) ==
    ResolveThemes(ok, poem_url, author_urls_norm).themes

\* ------------------------------ the dataset ----------------------------
\* The parameters of Poem's constructor, and all the fields of the
\* dataclass (title_lc is field(init=False), set by __post_init__).
PoemInitFields == {"title", "url", "comments", "author", "categories"}
PoemAllFields == PoemInitFields \cup {"title_lc"}

\* Poem(title=..., url=..., comments=..., author=..., categories=...).
Poem(title, u, comments, author, categories) ==
    [title |-> title, url |-> u, comments |-> comments, author |-> author,
     categories |-> categories, title_lc |-> Lower(title)]

\* A faulty variant of NewPoem: the record is built without its themes.
NewPoemWithoutThemes(p, name, themes) ==
    Poem(p.title, p.url, p.comments, name, <<>>)

\* Lines 298-304: the record of a stub whose themes have been resolved.
NewPoem(p, name, themes) == Poem(p.title, p.url, p.comments, name, themes)

\* dataclasses.asdict: every field of the dataclass, init or not.
asdict(p) == [k \in PoemAllFields |-> p[k]]

\* Poem(**d) raises TypeError unless d's keys are the constructor's
\* parameters: none missing, none unexpected.
CanConstruct(d) == DOMAIN d = PoemInitFields

PoemFromDict(d) == Poem(d.title, d.url, d.comments, d.author, d.categories)

\* The dataset file: whether it exists, the records written to it so far,
\* and whether the array was written to its end (the file then parses).
NoFile == [exists |-> FALSE, recs |-> <<>>, complete |-> FALSE]

\* open(path, "w"): the file exists and is empty.
OpenedFile == [exists |-> TRUE, recs |-> <<>>, complete |-> FALSE]

\* A faulty variant of load_existing_data: whatever records the file shows
\* are returned.
load_existing_data_unchecked(f) ==
    IF ~f.exists THEN <<>>
    ELSE [i \in 1..Len(f.recs) |-> PoemFromDict(f.recs[i])]

\* load_existing_data: [] when the file is absent, cannot be read or does
\* not parse (both raise inside the try), or holds a record Poem(**p)
\* rejects (the except clause).
load_existing_data(f) ==
    IF ~f.exists THEN <<>>
    ELSE IF ~f.complete THEN <<>>
    ELSE IF \E i \in 1..Len(f.recs) : ~CanConstruct(f.recs[i]) THEN <<>>
    ELSE [i \in 1..Len(f.recs) |-> PoemFromDict(f.recs[i])]

\* The data save_data writes (line 258).
DataOf(ps) == [i \in 1..Len(ps) |-> asdict(ps[i])]

\* A record with the constructor's fields only.
InitFieldsOf(d) == [k \in PoemInitFields |-> d[k]]

\* list.sort(key=comments, reverse=True): stable, by insertion.
RECURSIVE InsertDesc(_, _)
InsertDesc(sorted, p) ==
    IF sorted = <<>> THEN <<p>>
    ELSE IF Head(sorted).comments >= p.comments
         THEN <<Head(sorted)>> \o InsertDesc(Tail(sorted), p)
         ELSE <<p>> \o sorted

\* A faulty variant of SortByCommentsDesc: the collection is left as it is.
SortSkipped(ps) == ps

RECURSIVE SortByCommentsDesc(_)
SortByCommentsDesc(ps) ==
    IF ps = <<>> THEN <<>>
    ELSE InsertDesc(SortByCommentsDesc(SubSeq(ps, 1, Len(ps) - 1)), ps[Len(ps)])

\* The dataset files a run may find: none; an empty array; records with the
\* constructor's five fields; the same records as save_data writes them.
FiveFieldRecs ==
    << [title |-> <<"Q">>, url |-> Qurl, comments |-> 5, author |-> <<"A">>,
        categories |-> <<<<"N">>>>],
       [title |-> <<"P">>, url |-> Purl, comments |-> 12, author |-> <<"A">>,
        categories |-> <<>>] >>

InitialFiles ==
    { NoFile,
      [exists |-> TRUE, recs |-> <<>>, complete |-> TRUE],
      [exists |-> TRUE, recs |-> FiveFieldRecs, complete |-> TRUE],
      [exists |-> TRUE,
       recs |-> DataOf([i \in 1..Len(FiveFieldRecs) |-> PoemFromDict(FiveFieldRecs[i])]),
       complete |-> TRUE] }

\* ------------------------------ configuration --------------------------
\* MAX_AUTHORS and MAX_POEMS_PER_AUTHOR: None (the empty sequence) or a cap.
AuthorCap == 1
PoemCap == 2
MaxAuthorsChoices == {<<>>, <<AuthorCap>>}
MaxPoemsChoices == {<<>>, <<PoemCap>>}

Min(a, b) == IF a < b THEN a ELSE b
Max(a, b) == IF a > b THEN a ELSE b

\* Lines 272-273: authors[:MAX_AUTHORS] when the cap is set.
CapAuthors(found, max_authors) ==
    IF max_authors # <<>> THEN SubSeq(found, 1, Min(max_authors[1], Len(found)))
    ELSE found

\* Line 275: the normalized URLs of the authors.
AuthorUrlsNorm(as) == {norm_url(as[i].url) : i \in 1..Len(as)}

\* A faulty variant of CollectStubs: the cap is looked at only once the
\* whole page has been added.
CollectStubsWholePage(collected, stubs, name, max_poems) ==
    LET c == collected \o [k \in 1..Len(stubs) |->
                             [title |-> stubs[k].title, url |-> stubs[k].url,
                              comments |-> stubs[k].comments, author |-> name]]
    IN [collected |-> c,
        returned |-> max_poems # <<>> /\ max_poems[1] # 0 /\ Len(c) >= max_poems[1]]

\* Lines 205-209: the stubs of one page are added to collected one by one;
\* with a cap the function returns as soon as the cap is reached.
RECURSIVE CollectStubs(_, _, _, _)
CollectStubs(collected, stubs, name, max_poems) ==
    IF stubs = <<>> THEN [collected |-> collected, returned |-> FALSE]
    ELSE LET c == Append(collected, [title |-> Head(stubs).title,
                                     url |-> Head(stubs).url,
                                     comments |-> Head(stubs).comments,
                                     author |-> name])
         IN IF max_poems # <<>> /\ max_poems[1] # 0 /\ Len(c) >= max_poems[1]
            THEN [collected |-> c, returned |-> TRUE]
            ELSE CollectStubs(c, Tail(stubs), name, max_poems)

\* A faulty variant of NoAuthors: the crawl goes on without authors.
NoAuthorsIgnored(found) == FALSE

\* Line 268: if not authors.
NoAuthors(found) == found = <<>>

\* A faulty variant of WalkContinues: the visited set is not consulted.
WalkContinuesUnguarded(u, visited) == u # <<>>

\* Line 189: while url and url not in visited.
WalkContinues(u, visited) == u # <<>> /\ u \notin visited

\* A faulty variant of AlreadySeen: no stub is taken for a seen one.
AlreadySeenNever(p_url, seen) == FALSE

\* Line 293: the stub's URL has been seen.
AlreadySeen(p_url, seen) == p_url \in seen

\* A faulty variant of CheckpointDue: a save after every record.
CheckpointDueAlways(n) == TRUE

\* Line 307: len(poems) % CACHE_INTERMEDIATE_EVERY == 0.
CheckpointDue(n) == n % CACHE_INTERMEDIATE_EVERY = 0

\* ------------------------------ state ----------------------------------
VARIABLES
    config,            \* [max_authors, max_poems]: MAX_AUTHORS, MAX_POEMS_PER_AUTHOR
    root,              \* the author-menu anchors the root page serves
    file,              \* the dataset file poetica_poems.json
    run,               \* 1 for the first run of the process, +1 per restart
    pc,                \* where the run is
    authors,           \* scrape_all: authors (after the cap)
    author_urls_norm,  \* scrape_all: author_urls_norm
    poems,             \* scrape_all: poems
    seen_poem_urls,    \* scrape_all: seen_poem_urls
    ai,                \* scrape_all: index of the current author
    url,               \* iterate_all_listing_pages: url
    visited,           \* iterate_all_listing_pages: visited
    collected,         \* fetch_poems_for_author: collected
    listing_poems,     \* scrape_all: listing_poems
    li,                \* scrape_all: index of the current stub
    wdata,             \* save_data: data
    wkind,             \* which call of save_data is writing: "ckpt" or "final"
    result,            \* what load_or_scrape returned
    outcome,           \* how the run ended: loaded, scraped, failed, killed
    errorShown,        \* load_or_scrape called messagebox.showerror
    requests,          \* HTTP requests issued in this run
    sinceSleep,        \* requests issued since the last time.sleep
    burst,             \* the longest series of requests without a sleep between
    failures,          \* fetches that failed, all runs together
    walkLog,           \* URLs the walker fetched for the current author
    saveLog,           \* the calls of save_data in this run: kind and data
    resolved,          \* poem URL -> whether its page was fetched, once
                       \* fetch_poem_themes has returned for it
    keptLinks,         \* <<poem URL, href>> of every link a theme was read from
    discovered,        \* the author entries extract_menus returned
    skipped,           \* stubs dropped because their URL had been seen
    accepted,          \* the records appended to poems, in the order appended
    sightings,         \* the stubs the loop of lines 291-295 has come to, in order
    extractLog,        \* URL and outcome of each fetch made by
                       \* extract_poems_from_listing for the current author
    parse,             \* parse_comments_from_article on a card of its own:
                       \* the card, and the count once it has returned
    enrich,            \* json_content_filler.py: its place (pc), the files,
                       \* poems, the index i of the loop, updated_poems, and
                       \* the URL and outcome of each fetch made (fetched)
    gui,               \* PoeticaApp: self.poems, self.by_author, the filter
                       \* variables, _current_sort, _refresh_job, the timers
                       \* Tk holds, the rows of the table, and the files
    fileAtStart,       \* the dataset file as this run found it
    prev               \* outcome and result of the previous run

vars == << config, root, file, run, pc, authors, author_urls_norm, poems,
           seen_poem_urls, ai, url, visited, collected, listing_poems, li,
           wdata, wkind, result, outcome, errorShown, requests, sinceSleep,
           burst, failures, walkLog, saveLog, resolved, keptLinks, discovered,
           skipped, accepted, sightings, extractLog, fileAtStart, prev,
           parse, enrich, gui >>

crawlVars == << authors, author_urls_norm, poems, seen_poem_urls, ai >>
walkVars == << url, visited, collected, walkLog, extractLog >>
stubVars == << listing_poems, li >>
writeVars == << file, wdata, wkind, saveLog >>
endVars == << result, outcome, errorShown >>
envVars == << config, root, run, fileAtStart, prev >>
netVars == << requests, sinceSleep, burst >>
themeVars == << resolved, keptLinks, accepted >>
sideVars == << parse, enrich, gui >>
mainVars == << config, root, file, run, pc, authors, author_urls_norm, poems,
               seen_poem_urls, ai, url, visited, collected, listing_poems, li,
               wdata, wkind, result, outcome, errorShown, requests, sinceSleep,
               burst, failures, walkLog, saveLog, resolved, keptLinks,
               discovered, skipped, accepted, sightings, extractLog,
               fileAtStart, prev >>

\* The variables of a run before its first step.
RunLocalsFresh ==
    /\ authors = <<>> /\ author_urls_norm = {} /\ poems = <<>>
    /\ seen_poem_urls = {} /\ ai = 1
    /\ url = <<>> /\ visited = {} /\ collected = <<>>
    /\ listing_poems = <<>> /\ li = 1
    /\ wdata = <<>> /\ wkind = "none"
    /\ result = <<>> /\ outcome = "running" /\ errorShown = FALSE
    /\ requests = 0 /\ sinceSleep = 0 /\ burst = 0
    /\ walkLog = <<>> /\ saveLog = <<>>
    /\ resolved = <<>> /\ keptLinks = {} /\ discovered = <<>> /\ skipped = 0
    /\ accepted = <<>> /\ sightings = <<>> /\ extractLog = <<>>

\* The memory of a process that has just started.
FreshRun ==
    /\ pc = "start"
    /\ RunLocalsFresh

\* No card is being parsed on its own.
ParseOff == [article |-> <<>>, done |-> TRUE, comments |-> 0]

\* No window is open.
GuiOff == [pc |-> "off"]

\* The enrichment utility is not running.
EnrichOff ==
    [pc |-> "off", files |-> <<>>, poems |-> <<>>, i |-> 1,
     updated_poems |-> <<>>, fetched |-> <<>>]

Init ==
    /\ config \in [max_authors : MaxAuthorsChoices, max_poems : MaxPoemsChoices]
    /\ root \in RootChoices
    /\ file \in InitialFiles
    /\ fileAtStart = file
    /\ run = 1
    /\ failures = 0
    /\ prev = [outcome |-> "none", result |-> <<>>]
    /\ FreshRun
    /\ parse = ParseOff
    /\ enrich = EnrichOff
    /\ gui = GuiOff

\* ------------------------------ network --------------------------------
\* One requests.get: it succeeds or fails; slept tells whether the code
\* sleeps after it within the same step.
Request(ok, slept) ==
    /\ ok \/ failures < MaxFailures
    /\ failures' = IF ok THEN failures ELSE failures + 1
    /\ requests' = requests + 1
    /\ burst' = Max(burst, sinceSleep + 1)
    /\ sinceSleep' = IF slept THEN 0 ELSE sinceSleep + 1

\* time.sleep(DELAY_BETWEEN_REQUESTS) without a request in the step.
Sleep == sinceSleep' = 0 /\ UNCHANGED << requests, burst, failures >>

NoNet == UNCHANGED << requests, sinceSleep, burst, failures >>

\* save_data up to open(path, "w"): the data is computed, the file truncated.
BeginSave(ps, kind) ==
    /\ wdata' = DataOf(ps)
    /\ wkind' = kind
    /\ file' = OpenedFile
    /\ saveLog' = Append(saveLog, [kind |-> kind, data |-> DataOf(ps)])

\* ------------------------------ actions --------------------------------
\* load_or_scrape, lines 705-711: an existing dataset is returned as is.
LoadOrScrape ==
    /\ pc = "start"
    /\ LET loaded == load_existing_data(file) IN
       IF loaded # <<>>
       THEN /\ result' = loaded
            /\ outcome' = "loaded"
            /\ pc' = "returned"
            /\ UNCHANGED errorShown
       ELSE /\ pc' = "menus"
            /\ UNCHANGED endVars
    /\ NoNet
    /\ UNCHANGED << crawlVars, walkVars, stubVars, writeVars, envVars, sideVars,
                    themeVars, discovered, skipped, sightings >>

\* scrape_all, lines 267-280: the menus, the cap, the author URL set. With
\* no author scrape_all returns [] and load_or_scrape shows the error.
ExtractMenus ==
    /\ pc = "menus"
    /\ \E ok \in BOOLEAN :
        /\ Request(ok, FALSE)
        /\ LET found == extract_menus(ok, root)
               capped == CapAuthors(found, config.max_authors)
           IN /\ discovered' = found
              /\ IF NoAuthors(found)
                 THEN /\ result' = <<>>
                      /\ outcome' = "failed"
                      /\ errorShown' = TRUE
                      /\ pc' = "returned"
                      /\ UNCHANGED crawlVars
                 ELSE /\ authors' = capped
                      /\ author_urls_norm' = AuthorUrlsNorm(capped)
                      /\ poems' = <<>>
                      /\ seen_poem_urls' = {}
                      /\ ai' = 1
                      /\ pc' = "author"
                      /\ UNCHANGED endVars
    /\ UNCHANGED << walkVars, stubVars, writeVars, envVars, sideVars, themeVars, skipped, sightings >>

\* Lines 281-288: the next author; the sleep, then the walk starts.
BeginAuthor ==
    /\ pc = "author"
    /\ ai <= Len(authors)
    /\ Sleep
    /\ url' = authors[ai].url
    /\ visited' = {}
    /\ collected' = <<>>
    /\ walkLog' = <<>>
    /\ extractLog' = <<>>
    /\ pc' = "walk"
    /\ UNCHANGED << crawlVars, stubVars, writeVars, endVars, envVars, sideVars,
                    themeVars, discovered, skipped, sightings >>

\* iterate_all_listing_pages, lines 189-194: the page is marked visited and
\* fetched; a failed fetch ends the walk, a fetched page is yielded.
WalkFetch ==
    /\ pc = "walk"
    /\ WalkContinues(url, visited)
    /\ \E ok \in BOOLEAN :
        /\ Request(ok, FALSE)
        /\ visited' = visited \cup {url}
        /\ walkLog' = Append(walkLog, url)
        /\ IF ok
           THEN /\ pc' = "extract"
                /\ UNCHANGED stubVars
           ELSE /\ listing_poems' = collected
                /\ li' = 1
                /\ pc' = "stubs"
    /\ UNCHANGED << crawlVars, url, collected, extractLog, writeVars, endVars, envVars, sideVars,
                    themeVars, discovered, skipped, sightings >>

\* The walk ends: no next URL, or one already visited.
WalkEnd ==
    /\ pc = "walk"
    /\ ~WalkContinues(url, visited)
    /\ listing_poems' = collected
    /\ li' = 1
    /\ pc' = "stubs"
    /\ NoNet
    /\ UNCHANGED << crawlVars, walkVars, writeVars, endVars, envVars, sideVars,
                    themeVars, discovered, skipped, sightings >>

\* fetch_poems_for_author, lines 205-209, then the walker's lines 195-199:
\* the yielded page's URL is fetched again by extract_poems_from_listing and
\* its stubs collected; when the cap is reached the function returns at
\* once, otherwise the walker resolves the next link and sleeps.
ExtractPage ==
    /\ pc = "extract"
    /\ \E ok \in BOOLEAN :
        LET got == CollectStubs(collected, extract_poems_from_listing(ok, url),
                                authors[ai].name, config.max_poems)
        IN /\ Request(ok, ~got.returned)
           /\ collected' = got.collected
           /\ extractLog' = Append(extractLog, [url |-> url, ok |-> ok])
           /\ IF got.returned
              THEN /\ listing_poems' = got.collected
                   /\ li' = 1
                   /\ pc' = "stubs"
                   /\ UNCHANGED url
              ELSE /\ url' = NextUrl(url)
                   /\ pc' = "walk"
                   /\ UNCHANGED stubVars
    /\ UNCHANGED << crawlVars, visited, walkLog, writeVars, endVars, envVars, sideVars,
                    themeVars, discovered, skipped, sightings >>

\* Lines 291-294: a stub whose URL has been seen is dropped.
SkipSeen ==
    /\ pc = "stubs"
    /\ li <= Len(listing_poems)
    /\ AlreadySeen(listing_poems[li].url, seen_poem_urls)
    /\ li' = li + 1
    /\ skipped' = skipped + 1
    /\ sightings' = Append(sightings, listing_poems[li])
    /\ NoNet
    /\ UNCHANGED << pc, crawlVars, walkVars, listing_poems, writeVars, endVars,
                    envVars, sideVars, themeVars, discovered >>

\* Line 295: a new stub's URL is recorded as seen.
TakeStub ==
    /\ pc = "stubs"
    /\ li <= Len(listing_poems)
    /\ ~AlreadySeen(listing_poems[li].url, seen_poem_urls)
    /\ seen_poem_urls' = seen_poem_urls \cup {listing_poems[li].url}
    /\ sightings' = Append(sightings, listing_poems[li])
    /\ pc' = "themes"
    /\ NoNet
    /\ UNCHANGED << authors, author_urls_norm, poems, ai, walkVars, stubVars,
                    writeVars, endVars, envVars, sideVars, themeVars, discovered, skipped >>

\* Lines 297-310: the themes are resolved, the record built and appended;
\* every CACHE_INTERMEDIATE_EVERY records save_data is called; the sleep.
ResolveAndAdd ==
    /\ pc = "themes"
    /\ \E ok \in BOOLEAN :
        LET p == listing_poems[li]
            res == ResolveThemes(ok, p.url, author_urls_norm)
            themes == fetch_poem_themes(ok, p.url, author_urls_norm)
            poem == NewPoem(p, authors[ai].name, themes)
            due == CheckpointDue(Len(poems) + 1)
        IN /\ Request(ok, ~due)
           /\ poems' = Append(poems, poem)
           /\ resolved' = Append(resolved, [url |-> p.url, ok |-> ok])
           /\ accepted' = Append(accepted, poem)
           /\ keptLinks' = keptLinks \cup {<<p.url, res.kept[i]>> : i \in 1..Len(res.kept)}
           /\ IF due
              THEN /\ BeginSave(Append(poems, poem), "ckpt")
                   /\ pc' = "write"
                   /\ UNCHANGED li
              ELSE /\ li' = li + 1
                   /\ pc' = "stubs"
                   /\ UNCHANGED writeVars
    /\ UNCHANGED << authors, author_urls_norm, seen_poem_urls, ai, walkVars,
                    listing_poems, endVars, envVars, sideVars, discovered, skipped, sightings >>

\* The stubs of the author are done: the next author.
AuthorDone ==
    /\ pc = "stubs"
    /\ li > Len(listing_poems)
    /\ ai' = ai + 1
    /\ pc' = "author"
    /\ NoNet
    /\ UNCHANGED << authors, author_urls_norm, poems, seen_poem_urls, walkVars,
                    stubVars, writeVars, endVars, envVars, sideVars, themeVars,
                    discovered, skipped, sightings >>

\* Lines 312-313: after the last author the collection is sorted and
\* save_data is called.
FinalSort ==
    /\ pc = "author"
    /\ ai > Len(authors)
    /\ poems' = SortByCommentsDesc(poems)
    /\ BeginSave(SortByCommentsDesc(poems), "final")
    /\ pc' = "write"
    /\ NoNet
    /\ UNCHANGED << authors, author_urls_norm, seen_poem_urls, ai, walkVars,
                    stubVars, endVars, envVars, sideVars, themeVars, discovered, skipped, sightings >>

\* json.dump writes the array piece by piece: one more record reaches the
\* file.
WriteRecord ==
    /\ pc = "write"
    /\ Len(file.recs) < Len(wdata)
    /\ file' = [file EXCEPT !.recs = Append(@, wdata[Len(file.recs) + 1])]
    /\ NoNet
    /\ UNCHANGED << pc, crawlVars, walkVars, stubVars, wdata, wkind, saveLog,
                    endVars, envVars, sideVars, themeVars, discovered, skipped, sightings >>

\* The array is closed and the file with it. After an intermediate save the
\* loop sleeps and goes to the next stub (line 310); after the final one
\* scrape_all returns and load_or_scrape shows the error if it got nothing.
WriteClose ==
    /\ pc = "write"
    /\ Len(file.recs) = Len(wdata)
    /\ file' = [file EXCEPT !.complete = TRUE]
    /\ IF wkind = "ckpt"
       THEN /\ Sleep
            /\ li' = li + 1
            /\ pc' = "stubs"
            /\ UNCHANGED endVars
       ELSE /\ NoNet
            /\ result' = poems
            /\ outcome' = "scraped"
            /\ errorShown' = (poems = <<>>)
            /\ pc' = "returned"
            /\ UNCHANGED li
    /\ UNCHANGED << crawlVars, walkVars, listing_poems, wdata, wkind, saveLog,
                    envVars, sideVars, themeVars, discovered, skipped, sightings >>

\* The process is terminated.
Kill ==
    /\ pc \notin {"returned", "killed"}
    /\ pc' = "killed"
    /\ outcome' = "killed"
    /\ NoNet
    /\ UNCHANGED << crawlVars, walkVars, stubVars, writeVars, result,
                    errorShown, envVars, sideVars, themeVars, discovered, skipped, sightings >>

\* The program is started again: its memory is new, the file is as it was
\* left.
Restart ==
    /\ pc \in {"returned", "killed"}
    /\ run < MaxRuns
    /\ run' = run + 1
    /\ prev' = [outcome |-> outcome, result |-> result]
    /\ fileAtStart' = file
    /\ pc' = "start"
    /\ authors' = <<>> /\ author_urls_norm' = {} /\ poems' = <<>>
    /\ seen_poem_urls' = {} /\ ai' = 1
    /\ url' = <<>> /\ visited' = {} /\ collected' = <<>>
    /\ listing_poems' = <<>> /\ li' = 1
    /\ wdata' = <<>> /\ wkind' = "none"
    /\ result' = <<>> /\ outcome' = "running" /\ errorShown' = FALSE
    /\ requests' = 0 /\ sinceSleep' = 0 /\ burst' = 0
    /\ walkLog' = <<>> /\ saveLog' = <<>>
    /\ resolved' = <<>> /\ keptLinks' = {} /\ discovered' = <<>> /\ skipped' = 0
    /\ accepted' = <<>> /\ sightings' = <<>> /\ extractLog' = <<>>
    /\ UNCHANGED << config, root, file, failures, sideVars >>

Next ==
    \/ LoadOrScrape
    \/ ExtractMenus
    \/ BeginAuthor
    \/ WalkFetch
    \/ WalkEnd
    \/ ExtractPage
    \/ SkipSeen
    \/ TakeStub
    \/ ResolveAndAdd
    \/ AuthorDone
    \/ FinalSort
    \/ WriteRecord
    \/ WriteClose
    \/ Kill
    \/ Restart

Spec == Init /\ [][Next]_vars

\* ------------------------------ the comment parser on its own -----------
\* The crawl is not running.
CrawlOff ==
    /\ config = [max_authors |-> <<>>, max_poems |-> <<>>]
    /\ root = <<>>
    /\ file = NoFile
    /\ fileAtStart = NoFile
    /\ run = 1
    /\ failures = 0
    /\ prev = [outcome |-> "none", result |-> <<>>]
    /\ pc = "off"
    /\ RunLocalsFresh

\* The strings of at most n characters of the set A.
Strings(A, n) == UNION {[1..k -> A] : k \in 0..n}

\* The cards parse_comments_from_article is run on: a title, the text of
\* the other elements, and no comment link or one.
Articles ==
    { [text |-> t, body |-> b, cl |-> l] :
        t \in {<<"x">>, <<"7">>, <<"C">>},
        b \in Strings({"1", "2", " ", "c", "x"}, MaxBody),
        l \in {<<>>} \cup {<<x>> : x \in Strings({"3", " ", "c"}, MaxLink)} }

ParseInit ==
    /\ CrawlOff
    /\ enrich = EnrichOff
    /\ gui = GuiOff
    /\ parse \in {[article |-> a, done |-> FALSE, comments |-> 0] : a \in Articles}

\* One call of parse_comments_from_article.
ParseCard ==
    /\ ~parse.done
    /\ parse' = [parse EXCEPT !.done = TRUE,
                              !.comments = parse_comments_from_article(parse.article)]
    /\ UNCHANGED << mainVars, enrich, gui >>

ParseNext == ParseCard

ParseSpec == ParseInit /\ [][ParseNext]_vars

\* ------------------------------ the enrichment utility ------------------
\* json_content_filler.py. A poem page as extract_poem_text sees it: whether
\* it has a div.entry-content, and the <p> elements of that div in document
\* order, each with its text and whether it holds the <!--pstart comment.
\* "|" stands for the line break.
Para(pstart, text) == [pstart |-> pstart, text |-> text]

PoemPage(u) ==
    CASE u = Purl -> [entry |-> TRUE,
                      ps |-> << Para(FALSE, <<"x">>), Para(TRUE, <<>>),
                                Para(FALSE, <<" ", "a">>), Para(FALSE, <<" ">>),
                                Para(FALSE, <<"b", " ">>) >>]
      [] u = Qurl -> [entry |-> TRUE, ps |-> << Para(FALSE, <<"a">>), Para(FALSE, <<"b">>) >>]
      [] u = Rurl -> [entry |-> FALSE, ps |-> <<>>]
      [] u = Surl -> [entry |-> TRUE, ps |-> << Para(FALSE, <<" ">>) >>]
      [] OTHER -> [entry |-> FALSE, ps |-> <<>>]

\* "\n".join(parts)
RECURSIVE JoinLines(_)
JoinLines(parts) ==
    IF parts = <<>> THEN <<>>
    ELSE IF Len(parts) = 1 THEN parts[1]
    ELSE parts[1] \o <<"|">> \o JoinLines(Tail(parts))

\* Lines 35-44: the stripped non-empty texts of the <p> elements met after
\* one that holds the marker.
RECURSIVE CapturedParts(_, _)
CapturedParts(ps, capture) ==
    IF ps = <<>> THEN <<>>
    ELSE IF Head(ps).pstart THEN CapturedParts(Tail(ps), TRUE)
    ELSE IF capture /\ Strip(Head(ps).text) # <<>>
         THEN << Strip(Head(ps).text) >> \o CapturedParts(Tail(ps), capture)
    ELSE CapturedParts(Tail(ps), capture)

\* entry_content.get_text(separator="\n", strip=True)
EntryText(ps) ==
    LET texts == [k \in 1..Len(ps) |-> Strip(ps[k].text)]
    IN JoinLines(SelectSeq(texts, LAMBDA t : t # <<>>))

extract_poem_text(ok, u) ==
    IF ~ok THEN <<>>
    ELSE IF ~PoemPage(u).entry THEN <<>>
    ELSE LET text_parts == CapturedParts(PoemPage(u).ps, FALSE)
         IN IF text_parts = <<>> THEN Strip(JoinLines(<< EntryText(PoemPage(u).ps) >>))
            ELSE Strip(JoinLines(text_parts))

\* poem["content"] = content
WithContent(poem, content) ==
    [f \in DOMAIN poem \cup {"content"} |->
        IF f = "content" THEN content ELSE poem[f]]

INPUT_FILE == "poetica_poems.json"

\* A faulty variant of OUTPUT_FILE: the output goes to the input's path.
OutputOverInput == "poetica_poems.json"

OUTPUT_FILE == "poetica_poems_with_content.json"

\* The records the input file may hold, as save_data writes them.
InputRecs ==
    { asdict(Poem(<<"P">>, Purl, 12, <<"A">>, << <<"N">> >>)),
      asdict(Poem(<<"Q">>, Qurl, 5, <<"A">>, <<>>)),
      asdict(Poem(<<"R">>, Rurl, 0, <<"A">>, <<>>)),
      asdict(Poem(<<"S">>, Surl, 5, <<"B">>, << <<"M">> >>)) }

\* The input file: absent, or an array of at most MaxInput records.
InputFiles ==
    {NoFile} \cup
    { [exists |-> TRUE, recs |-> rs, complete |-> TRUE] :
        rs \in UNION {[1..n -> InputRecs] : n \in 0..MaxInput} }

\* The output file before the run: absent, or left by a former run.
OutputFiles ==
    { NoFile,
      [exists |-> TRUE, recs |-> <<>>, complete |-> TRUE] }

EnrichInit ==
    /\ CrawlOff
    /\ parse = ParseOff
    /\ gui = GuiOff
    /\ \E in \in InputFiles, out \in OutputFiles :
          enrich = [pc |-> "load",
                    files |-> (INPUT_FILE :> in) @@ (OUTPUT_FILE :> out),
                    poems |-> <<>>, i |-> 1, updated_poems |-> <<>>,
                    fetched |-> <<>>]

\* Lines 55-56: the input file is read; without it the script ends on the
\* exception of open.
EnrichLoad ==
    /\ enrich.pc = "load"
    /\ IF enrich.files[INPUT_FILE].exists
       THEN enrich' = [enrich EXCEPT !.pc = "loop",
                                     !.poems = enrich.files[INPUT_FILE].recs]
       ELSE enrich' = [enrich EXCEPT !.pc = "crashed"]
    /\ UNCHANGED << mainVars, parse, gui >>

\* Lines 59-64: one turn of the loop; the fetch succeeds or fails.
EnrichRecord ==
    /\ enrich.pc = "loop"
    /\ enrich.i <= Len(enrich.poems)
    /\ \E ok \in BOOLEAN :
        LET poem == enrich.poems[enrich.i]
            content == extract_poem_text(ok, poem.url)
        IN enrich' = [enrich EXCEPT
                        !.poems[enrich.i] = WithContent(poem, content),
                        !.updated_poems = Append(@, WithContent(poem, content)),
                        !.fetched = Append(@, [url |-> poem.url, ok |-> ok]),
                        !.i = @ + 1]
    /\ UNCHANGED << mainVars, parse, gui >>

\* Lines 69-70: the output file is written.
EnrichSave ==
    /\ enrich.pc = "loop"
    /\ enrich.i > Len(enrich.poems)
    /\ enrich' = [enrich EXCEPT
                    !.pc = "done",
                    !.files[OUTPUT_FILE] =
                        [exists |-> TRUE, recs |-> enrich.updated_poems,
                         complete |-> TRUE]]
    /\ UNCHANGED << mainVars, parse, gui >>

EnrichNext ==
    \/ EnrichLoad
    \/ EnrichRecord
    \/ EnrichSave

EnrichSpec == EnrichInit /\ [][EnrichNext]_vars

\* ------------------------------ the window -----------------------------
\* PoeticaApp. The characters in the order of their code points.
CharOrder ==
    << " ", ",", "/", "0", "1", "2", "3", "4", "5", "6", "7", "8", "9",
       "A", "B", "C", "M", "N", "P", "Q", "R", "S",
       "a", "b", "c", "h", "m", "n", "p", "q", "r", "s", "x", "|" >>

Code(c) == CHOOSE i \in 1..Len(CharOrder) : CharOrder[i] = c

\* a < b for two strings.
RECURSIVE StrLess(_, _)
StrLess(a, b) ==
    IF b = <<>> THEN FALSE
    ELSE IF a = <<>> THEN TRUE
    ELSE IF Head(a) = Head(b) THEN StrLess(Tail(a), Tail(b))
    ELSE Code(Head(a)) < Code(Head(b))

\* q in s
Contains(s, q) ==
    \E i \in 0..(Len(s) - Len(q)) : SubSeq(s, i + 1, i + Len(q)) = q

\* ", ".join(parts)
RECURSIVE JoinComma(_)
JoinComma(parts) ==
    IF parts = <<>> THEN <<>>
    ELSE IF Len(parts) = 1 THEN parts[1]
    ELSE parts[1] \o <<",", " ">> \o JoinComma(Tail(parts))

\* The sort keys of _refresh_table: p's key is less than q's.
KeyLess(col, p, q) ==
    CASE col = "comments" -> p.comments < q.comments
      [] col = "title" -> StrLess(p.title_lc, q.title_lc)
      [] col = "author" -> StrLess(Lower(p.author), Lower(q.author))

\* list.sort(key=..., reverse=desc): stable in both directions, by insertion.
RECURSIVE InsertBy(_, _, _, _)
InsertBy(sorted, p, col, desc) ==
    IF sorted = <<>> THEN <<p>>
    ELSE IF (IF desc THEN KeyLess(col, Head(sorted), p)
                     ELSE KeyLess(col, p, Head(sorted)))
         THEN <<p>> \o sorted
         ELSE <<Head(sorted)>> \o InsertBy(Tail(sorted), p, col, desc)

RECURSIVE SortedBy(_, _, _)
SortedBy(data, col, desc) ==
    IF data = <<>> THEN <<>>
    ELSE InsertBy(SortedBy(SubSeq(data, 1, Len(data) - 1), col, desc),
                  data[Len(data)], col, desc)

\* "Tous les auteurs", the first entry of the author list.
AllAuthors == <<>>

OUTPUT_JSON == "poetica_poems.json"

\* The delay, in milliseconds, of the deferred refresh.
DEBOUNCE_MS == 180

\* The paths the user may give the file dialog of the export.
ExportPaths == {"export.csv", OUTPUT_JSON}

\* The sort columns the table headings offer.
SortColumns == {"comments", "title", "author"}

\* What the user may have in the search box when a key is released.
SearchChoices == {<<>>, <<" ">>, <<"P">>, <<"x">>}

\* The collections a window is opened on.
GuiCollections ==
    { << Poem(<<"P">>, Purl, 12, <<"A">>, << <<"N">> >>),
         Poem(<<"Q">>, Qurl, 5, <<"A">>, << <<"N">>, <<"M">> >>),
         Poem(<<"S">>, Surl, 5, <<"B">>, << <<"M">> >>),
         Poem(<<"R">>, Rurl, 0, <<"A">>, <<>>) >>,
      << Poem(<<"Q">>, Qurl, 5, <<"A">>, << <<"N">> >>),
         Poem(<<"P">>, Purl, 12, <<"A">>, <<>>) >> }

\* _build_indices: the records of each author, in the order of self.poems.
BuildByAuthor(ps) ==
    [a \in {ps[i].author : i \in 1..Len(ps)} |->
        SelectSeq(ps, LAMBDA x : x.author = a)]

\* Line 507: the themes of the records of the active author.
ThemesFor(g) ==
    UNION { Range(g.poems[i].categories) :
              i \in {k \in 1..Len(g.poems) :
                        g.author_var = AllAuthors \/ g.poems[k].author = g.author_var} }

\* _refresh_category_panel: a full rebuild unchecks every theme; an update
\* drops the themes that left and adds the new ones unchecked.
RefreshCategoryPanel(g, update_only) ==
    [g EXCEPT !.category_vars =
        [c \in ThemesFor(g) |->
            IF update_only /\ c \in DOMAIN g.category_vars
            THEN g.category_vars[c] ELSE FALSE]]

\* _active_categories
ActiveCategories(g) == {c \in DOMAIN g.category_vars : g.category_vars[c]}

\* Lines 614-617: the list the filter starts from.
BaseOf(g) ==
    IF g.author_var = AllAuthors THEN g.poems
    ELSE IF g.author_var \in DOMAIN g.by_author THEN g.by_author[g.author_var]
    ELSE <<>>

\* The test of lines 619-635 on one record.
Matches(g, x) ==
    LET q == Lower(Strip(g.search_var))
        active_cats == ActiveCategories(g)
    IN /\ q = <<>> \/ Contains(x.title_lc, q)
       /\ active_cats = {} \/ \E c \in active_cats : c \in Range(x.categories)

\* A faulty variant of FilterPoems: without any filter the base list itself
\* is returned.
FilterPoemsShared(g) ==
    IF Lower(Strip(g.search_var)) = <<>> /\ ActiveCategories(g) = {}
    THEN [list |-> IF g.author_var = AllAuthors THEN "poems" ELSE "by_author",
          items |-> BaseOf(g)]
    ELSE [list |-> "new", items |-> SelectSeq(BaseOf(g), LAMBDA x : Matches(g, x))]

\* _filter_poems: which list object is returned (always a new one: res, or
\* list(base)) and what it holds.
FilterPoems(g) ==
    [list |-> "new", items |-> SelectSeq(BaseOf(g), LAMBDA x : Matches(g, x))]

\* The values of a row of the table.
RowOf(x) ==
    [comments |-> x.comments, title |-> x.title, author |-> x.author,
     categories |-> JoinComma(x.categories), url |-> x.url]

\* _refresh_table: the filtered list is sorted in place and shown; a list
\* that is another's object changes with it.
RefreshTable(g) ==
    LET data == FilterPoems(g)
        sorted == SortedBy(data.items, g.current_sort.col, g.current_sort.desc)
    IN [g EXCEPT
          !.rows = [k \in 1..Len(sorted) |-> RowOf(sorted[k])],
          !.poems = IF data.list = "poems" THEN sorted ELSE @,
          !.by_author = IF data.list = "by_author"
                        THEN [@ EXCEPT ![g.author_var] = sorted] ELSE @]

\* The timers of Tk: root.after(ms, f) arms a timer that has waited 0 ms,
\* root.after_cancel(job) removes one. waited holds, for every armed timer,
\* the milliseconds since it was armed, counted up to DEBOUNCE_MS.
AfterCancel(g, job) ==
    [g EXCEPT !.timers = @ \ {job},
              !.waited = [j \in g.timers \ {job} |-> g.waited[j]]]

After(g, job) ==
    [g EXCEPT !.timers = @ \cup {job},
              !.waited = [j \in g.timers \cup {job} |->
                            IF j = job THEN 0 ELSE g.waited[j]]]

\* The filter-change event is noted: the time since it starts at 0 and no
\* refresh has run after it. cancelled counts the jobs the events cancelled.
EventNoted(g) ==
    [g EXCEPT !.sinceEvent = 0, !.runs = 0, !.ranAfter = <<>>]

\* A faulty variant of _on_filters_changed: the pending job is not cancelled.
OnFiltersChangedUncancelled(g) ==
    [EventNoted(After(g, g.jobs + 1)) EXCEPT
       !.refresh_job = << g.jobs + 1 >>,
       !.jobs = @ + 1]

\* _on_filters_changed: the pending job is cancelled, a new one scheduled.
OnFiltersChanged(g) ==
    LET c == IF g.refresh_job # <<>>
             THEN [AfterCancel(g, g.refresh_job[1]) EXCEPT !.cancelled = @ + 1]
             ELSE g
    IN [EventNoted(After(c, g.jobs + 1)) EXCEPT
          !.refresh_job = << g.jobs + 1 >>,
          !.jobs = @ + 1]

\* PoeticaApp(poems) after __init__, on a dataset file that holds poems.
NewWindow(ps) ==
    LET g == [pc |-> "on",
              poems |-> ps,
              by_author |-> BuildByAuthor(ps),
              author_var |-> AllAuthors,
              search_var |-> <<>>,
              category_vars |-> <<>>,
              current_sort |-> [col |-> "comments", desc |-> TRUE],
              refresh_job |-> <<>>,
              timers |-> {},
              waited |-> <<>>,
              jobs |-> 0,
              sinceEvent |-> 0,
              runs |-> 0,
              cancelled |-> 0,
              ranAfter |-> <<>>,
              rows |-> <<>>,
              files |-> [f \in ExportPaths |->
                           IF f = OUTPUT_JSON
                           THEN [exists |-> TRUE, recs |-> DataOf(ps), complete |-> TRUE]
                           ELSE NoFile],
              exports |-> 0,
              poemsAtStart |-> ps,
              byAuthorAtStart |-> BuildByAuthor(ps)]
    IN RefreshTable(RefreshCategoryPanel(g, FALSE))

GuiInit ==
    /\ CrawlOff
    /\ parse = ParseOff
    /\ enrich = EnrichOff
    /\ \E ps \in GuiCollections : gui = NewWindow(ps)

\* <<ComboboxSelected>>: an entry of the author list is chosen.
SelectAuthor ==
    /\ gui.pc = "on" /\ gui.jobs < MaxJobs
    /\ \E a \in {AllAuthors} \cup DOMAIN gui.by_author :
          gui' = OnFiltersChanged([gui EXCEPT !.author_var = a])
    /\ UNCHANGED << mainVars, parse, enrich >>

\* <KeyRelease> in the search box.
KeyRelease ==
    /\ gui.pc = "on" /\ gui.jobs < MaxJobs
    /\ \E q \in SearchChoices :
          gui' = OnFiltersChanged([gui EXCEPT !.search_var = q])
    /\ UNCHANGED << mainVars, parse, enrich >>

\* A theme's check box is clicked.
ToggleTheme ==
    /\ gui.pc = "on" /\ gui.jobs < MaxJobs
    /\ \E c \in DOMAIN gui.category_vars :
          gui' = OnFiltersChanged([gui EXCEPT !.category_vars[c] = ~@])
    /\ UNCHANGED << mainVars, parse, enrich >>

\* _check_all
CheckAll ==
    /\ gui.pc = "on" /\ gui.jobs < MaxJobs
    /\ gui' = OnFiltersChanged(
                 [gui EXCEPT !.category_vars = [c \in DOMAIN @ |-> TRUE]])
    /\ UNCHANGED << mainVars, parse, enrich >>

\* _uncheck_all
UncheckAll ==
    /\ gui.pc = "on" /\ gui.jobs < MaxJobs
    /\ gui' = OnFiltersChanged(
                 [gui EXCEPT !.category_vars = [c \in DOMAIN @ |-> FALSE]])
    /\ UNCHANGED << mainVars, parse, enrich >>

\* Time passes while a timer is waiting.
Tick ==
    /\ gui.pc = "on"
    /\ \E j \in gui.timers : gui.waited[j] < DEBOUNCE_MS
    /\ gui' = [gui EXCEPT
                 !.waited = [j \in gui.timers |-> Min(gui.waited[j] + TickMs, DEBOUNCE_MS)],
                 !.sinceEvent = Min(@ + TickMs, DEBOUNCE_MS)]
    /\ UNCHANGED << mainVars, parse, enrich >>

\* A timer of Tk that has waited DEBOUNCE_MS expires: _apply_filters.
ApplyFilters ==
    /\ gui.pc = "on"
    /\ \E j \in gui.timers :
          /\ gui.waited[j] >= DEBOUNCE_MS
          /\ gui' = RefreshTable(RefreshCategoryPanel(
                       [AfterCancel(gui, j) EXCEPT
                          !.refresh_job = <<>>,
                          !.runs = @ + 1,
                          !.ranAfter = << gui.sinceEvent >>], TRUE))
    /\ UNCHANGED << mainVars, parse, enrich >>

\* _reset_filters
ResetFilters ==
    /\ gui.pc = "on"
    /\ gui' = RefreshTable(RefreshCategoryPanel(
                  [gui EXCEPT !.author_var = AllAuthors, !.search_var = <<>>], FALSE))
    /\ UNCHANGED << mainVars, parse, enrich >>

\* _sort_by: a heading is clicked.
SortBy ==
    /\ gui.pc = "on"
    /\ \E col \in SortColumns :
          LET desc == IF col = gui.current_sort.col THEN ~gui.current_sort.desc
                      ELSE col = "comments"
          IN gui' = RefreshTable(
                      [gui EXCEPT !.current_sort = [col |-> col, desc |-> desc]])
    /\ UNCHANGED << mainVars, parse, enrich >>

\* _export_csv with the path the file dialog returned: the rows shown are
\* written to it.
ExportCsv ==
    /\ gui.pc = "on" /\ gui.exports < MaxExports
    /\ \E path \in ExportPaths :
          gui' = [gui EXCEPT !.files[path] = [exists |-> TRUE, csv |-> gui.rows],
                             !.exports = @ + 1]
    /\ UNCHANGED << mainVars, parse, enrich >>

\* The file dialog is closed without a path.
ExportCancelled ==
    /\ gui.pc = "on" /\ gui.exports < MaxExports
    /\ gui' = [gui EXCEPT !.exports = @ + 1]
    /\ UNCHANGED << mainVars, parse, enrich >>

GuiNext ==
    \/ SelectAuthor
    \/ KeyRelease
    \/ ToggleTheme
    \/ CheckAll
    \/ UncheckAll
    \/ Tick
    \/ ApplyFilters
    \/ ResetFilters
    \/ SortBy
    \/ ExportCsv
    \/ ExportCancelled

GuiSpec == GuiInit /\ [][GuiNext]_vars

\* The window without the export, which neither reads nor writes the timers
\* (lines 578-596).
DebounceNext ==
    \/ SelectAuthor
    \/ KeyRelease
    \/ ToggleTheme
    \/ CheckAll
    \/ UncheckAll
    \/ Tick
    \/ ApplyFilters
    \/ ResetFilters
    \/ SortBy

DebounceSpec == GuiInit /\ [][DebounceNext]_vars

\* ------------------------------ properties -----------------------------
NoDupUrls(rs) == \A i, j \in 1..Len(rs) : rs[i].url = rs[j].url => i = j

Urls(rs) == {rs[i].url : i \in 1..Len(rs)}

\* The run is a crawl that has called save_data: the file is its own.
FileWrittenByRun == saveLog # <<>>

Checkpoints == SelectSeq(saveLog, LAMBDA e : e.kind = "ckpt")
Finals == SelectSeq(saveLog, LAMBDA e : e.kind = "final")

\* C1: during a crawl and in every dataset file it writes, intermediate or
\* final, no two records share the same url, also when a poem is listed by
\* several authors or several times in one listing.
C1_UniqueUrls ==
    /\ NoDupUrls(poems)
    /\ \A k \in 1..Len(saveLog) : NoDupUrls(saveLog[k].data)
    /\ FileWrittenByRun => NoDupUrls(file.recs)
    /\ outcome = "scraped" => NoDupUrls(result)

\* C1 witness: a crawl has ended after dropping a stub listed twice by one
\* author and a stub listed by a second author, and has written its file.
C1_Witness ==
    /\ pc = "returned" /\ outcome = "scraped"
    /\ skipped >= 2
    /\ file.complete /\ Len(file.recs) >= 3
    /\ \E i, j \in 1..Len(file.recs) : file.recs[i].author # file.recs[j].author

\* C2: between any two consecutive HTTP requests of a run at least one
\* politeness delay takes place: no two requests follow each other without
\* a sleep between them.
C2_DelayBetweenRequests == burst <= 1

\* C3: after a crawl that completed and persisted a non-empty collection,
\* the next run issues no request and returns the persisted collection.
C3_RerunReturnsPersisted ==
    (run > 1 /\ prev.outcome = "scraped" /\ prev.result # <<>>)
        => /\ requests = 0
           /\ pc = "returned" => result = prev.result

\* C4: no theme of a recorded poem was read from a link whose normalized
\* target is the normalized URL of an author discovered in the root menu,
\* whatever the cap on the authors crawled.
C4_NoAuthorLinkKept ==
    \A kl \in keptLinks :
        kl[1] \in Urls(poems) => norm_url(kl[2]) \notin AuthorUrlsNorm(discovered)

\* C5: no string in the categories of a persisted record equals, after
\* case and slash normalization, the display name of a discovered author.
C5_NoAuthorNameInCategories ==
    FileWrittenByRun =>
        \A i \in 1..Len(file.recs) :
            \A c \in Range(file.recs[i].categories) :
                \A k \in 1..Len(discovered) :
                    norm_url(c) # norm_url(discovered[k].name)

\* C6: when the process is terminated, the dataset file is absent or a
\* complete snapshot of a collection; it is never truncated or partial.
C6_KilledFileAbsentOrComplete ==
    pc = "killed" => (~file.exists \/ file.complete)

C8_ValidFileShortCircuits ==
    (/\ fileAtStart.exists /\ fileAtStart.complete /\ fileAtStart.recs # <<>>
     /\ \A i \in 1..Len(fileAtStart.recs) :
            PoemInitFields \subseteq DOMAIN fileAtStart.recs[i])
        => /\ requests = 0
           /\ saveLog = <<>>
           /\ file = fileAtStart
           /\ pc = "returned" =>
                /\ Len(result) = Len(fileAtStart.recs)
                /\ \A i \in 1..Len(result) :
                       InitFieldsOf(result[i]) = InitFieldsOf(fileAtStart.recs[i])

\* C9: in a crawl save_data has been called once for each positive multiple
\* of CACHE_INTERMEDIATE_EVERY the number of records has reached, each time
\* with the whole collection of that moment, never for a dropped stub, and
\* once more with the sorted collection at the end; a finished write leaves
\* the data of the last call in the file.
C9_CheckpointCadence ==
    /\ Len(Checkpoints) = Len(poems) \div CACHE_INTERMEDIATE_EVERY
    /\ Finals = <<>> =>
          \A k \in 1..Len(Checkpoints) :
              Checkpoints[k].data = DataOf(SubSeq(poems, 1, k * CACHE_INTERMEDIATE_EVERY))
    /\ Len(Finals) = (IF wkind = "final" THEN 1 ELSE 0)
    /\ Finals # <<>> =>
          /\ saveLog[Len(saveLog)].kind = "final"
          /\ saveLog[Len(saveLog)].data = DataOf(poems)
    /\ outcome = "scraped" => wkind = "final"
    /\ (FileWrittenByRun /\ file.complete) => file.recs = saveLog[Len(saveLog)].data

\* C9 witness: a crawl has ended after intermediate saves and a dropped
\* stub.
C9_Witness ==
    /\ pc = "returned" /\ outcome = "scraped"
    /\ Len(Checkpoints) >= 1
    /\ skipped >= 1
    /\ Len(poems) % CACHE_INTERMEDIATE_EVERY # 0

\* C10: a dataset file a crawl has finished writing holds only records with
\* the five fields whose categories are what the finished theme resolution
\* of that poem returned; the poem being resolved is in no file.
C10_FileHoldsResolvedRecords ==
    FileWrittenByRun =>
        /\ file.complete =>
              \A i \in 1..Len(file.recs) :
                  /\ PoemInitFields \subseteq DOMAIN file.recs[i]
                  /\ \E k \in 1..Len(resolved) :
                        /\ resolved[k].url = file.recs[i].url
                        /\ file.recs[i].categories =
                              fetch_poem_themes(resolved[k].ok, file.recs[i].url,
                                                author_urls_norm)
        /\ Urls(file.recs) \subseteq Urls(resolved)
        /\ pc = "themes" => listing_poems[li].url \notin Urls(file.recs)

\* C10 witness: a theme resolution is in progress while the file of an
\* intermediate save exists; one of its records has themes, another comes
\* from a poem page that could not be fetched.
C10_Witness ==
    /\ pc = "themes"
    /\ FileWrittenByRun /\ file.complete
    /\ \E i \in 1..Len(file.recs) : file.recs[i].categories # <<>>
    /\ \E k \in 1..Len(resolved) : ~resolved[k].ok

\* C11: when menu discovery yields no author, also because the root fetch
\* failed, the run issues no request after the root fetch, leaves the
\* dataset file as it found it, returns an empty collection and
\* load_or_scrape reports the failure.
C11_NoAuthorsAborts ==
    (requests >= 1 /\ discovered = <<>>)
        => /\ requests = 1
           /\ saveLog = <<>>
           /\ file = fileAtStart
           /\ pc = "returned"
           /\ outcome = "failed"
           /\ result = <<>>
           /\ errorShown

\* C11 witness: the root page was fetched and has an author menu without
\* entries: the run has ended as failed, an existing file untouched.
C11_Witness ==
    /\ outcome = "failed"
    /\ failures = 0
    /\ fileAtStart.exists

\* How many times x occurs in the sequence s.
Count(x, s) == Cardinality({i \in 1..Len(s) : s[i] = x})

IsPermutation(a, b) ==
    /\ Len(a) = Len(b)
    /\ \A x \in Range(a) \cup Range(b) : Count(x, a) = Count(x, b)

NonIncreasing(rs) ==
    \A i, j \in 1..Len(rs) : i < j => rs[i].comments >= rs[j].comments

\* C12: when scrape_all completes, the returned collection and the final
\* file hold exactly the records accumulated during the run, none lost or
\* added, ordered by comments non-increasing.
C12_FinalSortedPermutation ==
    outcome = "scraped"
        => /\ IsPermutation(result, accepted)
           /\ NonIncreasing(result)
           /\ file.complete
           /\ Len(file.recs) = Len(result)
           /\ \A i \in 1..Len(result) :
                  /\ InitFieldsOf(file.recs[i]) = InitFieldsOf(result[i])
                  /\ result[i] \in Range(accepted)

\* C12 witness: a completed crawl of four records, two with the same
\* count, whose order of acceptance was not the sorted one.
C12_Witness ==
    /\ outcome = "scraped"
    /\ Len(result) = 4
    /\ result # accepted
    /\ \E i \in 1..3 : result[i].comments = result[i + 1].comments

\* The address a listing page's next-page link points to, <<>> without one.
NextLinkOf(u) ==
    LET href == find_next_page(ListingPage(u)) IN
    IF href = <<>> \/ StartsWithHttp(href) THEN href ELSE urljoin(u, href)

\* The stubs the pages of a log of extractions hold, in order, as stubs of
\* the author called name; a failed extraction holds none.
RECURSIVE StubsOfLog(_, _)
StubsOfLog(log, name) ==
    IF log = <<>> THEN <<>>
    ELSE LET e == log[Len(log)]
             stubs == IF e.ok THEN StubsOfCards(ListingPage(e.url).cards) ELSE <<>>
         IN StubsOfLog(SubSeq(log, 1, Len(log) - 1), name)
            \o [k \in 1..Len(stubs) |->
                  [title |-> stubs[k].title, url |-> stubs[k].url,
                   comments |-> stubs[k].comments, author |-> name]]

\* The extractions of the log made on a fetched page without any
\* recognizable card.
EmptyExtractions ==
    {i \in 1..Len(extractLog) :
        /\ extractLog[i].ok
        /\ \A k \in 1..Len(ListingPage(extractLog[i].url).cards) :
               ~ListingPage(extractLog[i].url).cards[k].haslink}

\* C13: a listing page fetched successfully that has no recognizable card
\* adds no stub and ends neither the run nor the walk: the walker goes on
\* to the page its next-page link points to, and the stubs of the later
\* pages are collected.
C13_EmptyPageDoesNotHaltWalk ==
    \A i \in EmptyExtractions :
        /\ i = Len(walkLog) => url = NextLinkOf(extractLog[i].url)
        /\ i = Len(walkLog) /\ WalkContinues(url, visited) => pc \in {"walk", "killed"}
        /\ i < Len(walkLog) => walkLog[i + 1] = NextLinkOf(extractLog[i].url)
        /\ pc \in {"walk", "extract"} =>
               collected = StubsOfLog(extractLog, authors[ai].name)
        /\ pc = "stubs" => listing_poems = StubsOfLog(extractLog, authors[ai].name)

\* C13 witness: the walk of author A is over, its second page gave no
\* stub and the poem of its third page is among the stubs collected.
C13_Witness ==
    /\ pc = "stubs"
    /\ EmptyExtractions # {}
    /\ Len(extractLog) = 3
    /\ \E k \in 1..Len(listing_poems) : listing_poems[k].url = Rurl

\* The series of digits of t that no digit precedes or follows, as pairs of
\* their first and last place.
NumbersIn(t) ==
    { r \in (1..Len(t)) \X (1..Len(t)) :
        /\ r[1] <= r[2]
        /\ \A k \in r[1]..r[2] : t[k] \in Digits
        /\ r[1] = 1 \/ t[r[1] - 1] \notin Digits
        /\ r[2] = Len(t) \/ t[r[2] + 1] \notin Digits }

\* The number r of t comes right before a "commentaire" token: nothing but
\* white space lies between the two.
BeforeToken(t, r) ==
    \E k \in (r[2] + 1)..Len(t) :
        /\ t[k] \in {"c", "C"}
        /\ \A m \in (r[2] + 1)..(k - 1) : t[m] = " "

FirstOf(rs) == CHOOSE r \in rs : \A q \in rs : r[1] <= q[1]

Decimal(t, r) == IntOf(SubSeq(t, r[1], r[2]))

\* The count the comment indicators of a card stand for.
CountShown(a) ==
    LET t == ArticleText(a)
        counts == {r \in NumbersIn(t) : BeforeToken(t, r)}
    IN IF counts # {} THEN Decimal(t, FirstOf(counts))
       ELSE IF a.cl # <<>> /\ NumbersIn(LinkText(a)) # {}
            THEN Decimal(LinkText(a), FirstOf(NumbersIn(LinkText(a))))
       ELSE 0

\* C14: the comment count of a card is the first number of its visible
\* text that comes right before a "commentaire" token if there is one,
\* otherwise the first number of its comment link if it has one with a
\* number, otherwise 0; it is never negative; "12 commentaires" gives 12
\* and a card without indicator 0.
C14_CommentCountParsed ==
    parse.done /\ parse.article # <<>> =>
        /\ parse.comments = CountShown(parse.article)
        /\ parse.comments >= 0
        /\ parse.article.body = <<"1", "2", " ", "c">> => parse.comments = 12
        /\ (/\ parse.article.cl = <<>>
            /\ \A k \in 1..Len(parse.article.body) :
                   parse.article.body[k] \notin {"c", "C"})
               => parse.comments = 0

\* C14 witness: a card whose text has a number before "commentaire" that
\* is not its first number, and a comment link with another number.
C14_Witness ==
    /\ parse.done /\ parse.article # <<>>
    /\ parse.article.body = <<"1", "x", "2", "c">>
    /\ parse.article.cl = << <<"3">> >>
    /\ parse.comments = 2

\* A string of the model: a finite sequence of one-character strings.
IsText(x) == DOMAIN x = 1..Len(x)

\* The page at u has no div.entry-content, or one without any text.
NoBody(u) ==
    \/ ~PoemPage(u).entry
    \/ \A k \in 1..Len(PoemPage(u).ps) : Strip(PoemPage(u).ps[k].text) = <<>>

\* C15: the enrichment utility never modifies its input file; the output
\* it writes holds the input's records in the same order, every field of
\* the input unchanged, each with one more field, content, a string, empty
\* when the page could not be fetched or has no body; every record is
\* fetched, whatever became of the fetches before it.
C15_EnrichmentAdditive ==
    enrich.pc # "off" =>
        LET in == enrich.files[INPUT_FILE]
            out == enrich.files[OUTPUT_FILE]
        IN /\ in \in InputFiles
           /\ enrich.pc \in {"load", "loop"} => out \in OutputFiles
           /\ enrich.pc = "loop" =>
                  /\ Len(enrich.fetched) = enrich.i - 1
                  /\ \A k \in 1..Len(enrich.fetched) :
                         enrich.fetched[k].url = in.recs[k].url
           /\ enrich.pc = "done" =>
                  /\ out.exists /\ out.complete
                  /\ Len(out.recs) = Len(in.recs)
                  /\ Len(enrich.fetched) = Len(in.recs)
                  /\ \A k \in 1..Len(in.recs) :
                         /\ DOMAIN out.recs[k] = DOMAIN in.recs[k] \cup {"content"}
                         /\ \A f \in DOMAIN in.recs[k] : out.recs[k][f] = in.recs[k][f]
                         /\ IsText(out.recs[k].content)
                         /\ enrich.fetched[k].url = in.recs[k].url
                         /\ (~enrich.fetched[k].ok \/ NoBody(in.recs[k].url))
                                => out.recs[k].content = <<>>

\* C15 witness: three records enriched, the fetch of the second failed,
\* the third has a text of two lines.
C15_Witness ==
    /\ enrich.pc = "done"
    /\ Len(enrich.files[OUTPUT_FILE].recs) = 3
    /\ ~enrich.fetched[2].ok
    /\ enrich.files[OUTPUT_FILE].recs[3].content = <<"a", "|", "b">>

\* The requests made for listing pages while harvesting the current author:
\* the walker's and those of extract_poems_from_listing.
ListingRequests ==
    walkLog \o [k \in 1..Len(extractLog) |-> extractLog[k].url]

\* C17: while one author is harvested no listing page URL is requested
\* more than once.
C17_ListingUrlRequestedOnce ==
    \A i, j \in 1..Len(ListingRequests) :
        ListingRequests[i] = ListingRequests[j] => i = j

\* The links of a poem page that a selector matches, as places in the page.
MatchedBy(u, sel) == {k \in 1..Len(DetailLinks(u)) : sel \in DetailLinks(u)[k].sels}

\* Those of them that give a theme: the text is not empty and the target
\* is not one of the author URLs.
YieldedBy(u, sel) ==
    {k \in MatchedBy(u, sel) :
        /\ Strip(DetailLinks(u)[k].txt) # <<>>
        /\ norm_url(Strip(DetailLinks(u)[k].href)) \notin author_urls_norm}

\* The first selector for which the set S(sel) is not empty, 0 without one.
FirstSelector(S(_)) ==
    IF \A sel \in 1..NumSelectors : S(sel) = {} THEN 0
    ELSE CHOOSE sel \in 1..NumSelectors :
            S(sel) # {} /\ \A t \in 1..(sel - 1) : S(t) = {}

\* The names cs are those of the links at the places ks of page u, each
\* once, in the order in which the page first shows them.
NamesInDocumentOrder(cs, u, ks) ==
    LET name(k) == Strip(DetailLinks(u)[k].txt)
        first(c) == CHOOSE k \in ks : name(k) = c /\ \A m \in ks : name(m) = c => k <= m
    IN /\ Range(cs) = {name(k) : k \in ks}
       /\ \A i, j \in 1..Len(cs) : i < j => first(cs[i]) < first(cs[j])

\* The records of this run whose poem page was fetched, as places in
\* accepted.
ResolvedOk == {k \in 1..Len(accepted) : k <= Len(resolved) /\ resolved[k].ok}

\* C18 as stated: the themes of a record all come from links matched by
\* the first selector that matches any link of the page.
C18_FirstMatchingSelectorOnly ==
    \A k \in ResolvedOk :
        LET u == accepted[k].url
            s == FirstSelector(LAMBDA sel : MatchedBy(u, sel))
        IN \A c \in Range(accepted[k].categories) :
             /\ s # 0
             /\ \E m \in MatchedBy(u, s) : Strip(DetailLinks(u)[m].txt) = c

\* C18, amended: the themes of a record are the names of the links that
\* give a theme under the first selector under which any link gives one
\* (no name when there is no such selector), in document order, each once;
\* no later selector adds a name.
C18_FirstYieldingSelectorOnly ==
    \A k \in ResolvedOk :
        LET u == accepted[k].url
            s == FirstSelector(LAMBDA sel : YieldedBy(u, sel))
        IN IF s = 0 THEN accepted[k].categories = <<>>
           ELSE NamesInDocumentOrder(accepted[k].categories, u, YieldedBy(u, s))

\* C18 witness: poem s, whose first selectors match only an author link,
\* got its theme from the fourth; poem q got none from the fourth.
C18_Witness ==
    /\ \E k \in ResolvedOk :
          accepted[k].url = Surl /\ accepted[k].categories = << <<"M">> >>
    /\ \E k \in ResolvedOk :
          /\ accepted[k].url = Qurl
          /\ <<"N">> \in Range(accepted[k].categories)
          /\ <<"M">> \notin Range(accepted[k].categories)

\* The distinct URLs among the stubs come to so far.
SightedUrls == {sightings[k].url : k \in 1..Len(sightings)}

\* The first sighting of a URL.
FirstSighting(u) ==
    sightings[CHOOSE k \in 1..Len(sightings) :
                 sightings[k].url = u /\ \A m \in 1..(k - 1) : sightings[m].url # u]

\* 1 while a stub has been taken and its record is not yet appended.
Pending == Len(sightings) - skipped - Len(resolved)

\* C19: in a run the detail page of a poem is requested at most once per
\* URL: the stubs dropped are exactly the sightings of a URL already seen,
\* and only the others, one per URL, lead to a request.
C19_DetailRequestedOncePerUrl ==
    /\ NoDupUrls(resolved)
    /\ skipped = Len(sightings) - Cardinality(SightedUrls)
    /\ Pending \in {0, 1}
    /\ Pending = 1 => pc \in {"themes", "killed"}
    /\ {resolved[k].url : k \in 1..Len(resolved)} \subseteq SightedUrls
    /\ Len(resolved) = Len(accepted)
    /\ requests >= Len(resolved)

\* C19 witness: a crawl over, two stubs dropped, four pages requested.
C19_Witness ==
    /\ outcome = "scraped"
    /\ skipped = 2
    /\ Len(resolved) = 4

\* C20: the title, comment count and author of a record are those of the
\* first sighting of its URL; a later sighting of the URL adds nothing to
\* the collection or to the seen set.
C20_FirstSightingWins ==
    /\ seen_poem_urls = SightedUrls
    /\ Len(poems) = Cardinality(SightedUrls) - Pending
    /\ \A i \in 1..Len(poems) :
          /\ poems[i].url \in SightedUrls
          /\ poems[i].title = FirstSighting(poems[i].url).title
          /\ poems[i].comments = FirstSighting(poems[i].url).comments
          /\ poems[i].author = FirstSighting(poems[i].url).author

\* C20 witness: the poem at /p was sighted under author A with 12 comments,
\* then again under A, then under author B with another title and count;
\* its record is A's.
C20_Witness ==
    /\ \E k \in 1..Len(sightings) :
          /\ sightings[k].url = Purl
          /\ sightings[k].author = <<"B">>
          /\ sightings[k].comments = 7
    /\ \E i \in 1..Len(poems) :
          /\ poems[i].url = Purl
          /\ poems[i].author = <<"A">>
          /\ poems[i].comments = 12
    /\ skipped = 2

\* C21: once the fetch of a listing page has failed during an author's
\* walk, the walk is over: no further listing page of the author is
\* requested.
C21_FailedListingFetchStopsWalk ==
    \A k \in 1..Len(extractLog) :
        ~extractLog[k].ok => Len(walkLog) <= k

\* The records of this run whose poem page could not be fetched, as places
\* in accepted.
ResolvedFailed == {k \in 1..Len(resolved) : ~resolved[k].ok}

\* C22: a new poem whose detail page cannot be fetched is still added, with
\* empty categories and the title, url, comment count and author of its
\* stub, and it counts for the intermediate saves like any other record:
\* when it is the record that makes the count a multiple of
\* CACHE_INTERMEDIATE_EVERY, the collection up to it is saved.
C22_UnreachableDetailStillRecorded ==
    \A k \in ResolvedFailed :
        /\ k <= Len(accepted)
        /\ accepted[k] \in Range(poems)
        /\ accepted[k].categories = <<>>
        /\ accepted[k].url = resolved[k].url
        /\ accepted[k].title = FirstSighting(resolved[k].url).title
        /\ accepted[k].comments = FirstSighting(resolved[k].url).comments
        /\ accepted[k].author = FirstSighting(resolved[k].url).author
        /\ k % CACHE_INTERMEDIATE_EVERY = 0 =>
              /\ Len(Checkpoints) >= k \div CACHE_INTERMEDIATE_EVERY
              /\ Checkpoints[k \div CACHE_INTERMEDIATE_EVERY].data
                    = DataOf(SubSeq(accepted, 1, k))
        /\ \A j \in 1..Len(Checkpoints) :
              Len(Checkpoints[j].data) >= k
                  => Checkpoints[j].data[k] = asdict(accepted[k])

\* C22 witness: a crawl is over; the page of the record that made the
\* count a multiple of CACHE_INTERMEDIATE_EVERY could not be fetched, though
\* it shows a theme, and records were added after it.
C22_Witness ==
    /\ outcome = "scraped"
    /\ \E k \in ResolvedFailed :
          /\ k % CACHE_INTERMEDIATE_EVERY = 0
          /\ k < Len(accepted)
          /\ fetch_poem_themes(TRUE, resolved[k].url, author_urls_norm) # <<>>
          /\ \E i \in 1..Len(file.recs) :
                file.recs[i].url = resolved[k].url /\ file.recs[i].categories = <<>>

\* C23: load_or_scrape reports an error only when menu discovery found no
\* author; a crawl that found one is never reported as failed.
C23_ErrorOnlyWithoutAuthors ==
    errorShown => discovered = <<>>

\* The dataset file the run found cannot be loaded: reading or parsing it
\* raises, or a record of it does not have the constructor's fields.
UnloadableFileAtStart ==
    /\ fileAtStart.exists
    /\ \/ ~fileAtStart.complete
       \/ \E i \in 1..Len(fileAtStart.recs) : ~CanConstruct(fileAtStart.recs[i])

\* C24: when the dataset file exists but cannot be read or parsed, or holds
\* records that do not match the constructor's fields, nothing is loaded
\* from it and the run goes into a fresh crawl: it never returns the file's
\* records, and once past the loading it is in the crawl.
C24_UnloadableFileMeansFreshCrawl ==
    UnloadableFileAtStart =>
        /\ outcome # "loaded"
        /\ pc \notin {"start", "killed"} => (pc = "menus" \/ requests >= 1)
        /\ pc = "returned" => outcome \in {"scraped", "failed"}
        /\ outcome = "scraped" =>
              /\ file.complete
              /\ file.recs = DataOf(result)
              /\ IsPermutation(result, accepted)

\* C24 witness: the second run found the file a killed run had left
\* half-written, with a record in it, and has crawled to the end.
C24_Witness ==
    /\ run = 2
    /\ fileAtStart.exists /\ ~fileAtStart.complete /\ fileAtStart.recs # <<>>
    /\ outcome = "scraped"
    /\ result # <<>>

\* A run found a complete file whose records have a field too many and has
\* crawled to the end.
MismatchedFileCrawled ==
    /\ fileAtStart.exists /\ fileAtStart.complete
    /\ \E i \in 1..Len(fileAtStart.recs) : ~CanConstruct(fileAtStart.recs[i])
    /\ outcome = "scraped"

\* fetch_poems_for_author has returned for the current author.
AuthorHarvested ==
    /\ pc \in {"stubs", "themes", "write"} /\ wkind # "final" /\ ai <= Len(authors)

\* The stubs of the pages extracted before the last extraction.
StubsBeforeLastPage ==
    StubsOfLog(SubSeq(extractLog, 1, Len(extractLog) - 1), authors[ai].name)

\* C25: with a cap k >= 1 fetch_poems_for_author returns the first k stubs
\* of the author in listing order, or all when there are fewer, and when it
\* returns k the last listing request made is the extraction of the page
\* that holds the k-th stub; without a cap every page the walker fetched is
\* extracted and all their stubs are returned.
C25_PerAuthorCap ==
    AuthorHarvested =>
        LET all == StubsOfLog(extractLog, authors[ai].name)
            cap == config.max_poems
        IN IF cap # <<>> /\ cap[1] >= 1
           THEN /\ Len(listing_poems) <= cap[1]
                /\ listing_poems = SubSeq(all, 1, Min(cap[1], Len(all)))
                /\ Len(listing_poems) = cap[1] =>
                      /\ Len(walkLog) = Len(extractLog)
                      /\ extractLog[Len(extractLog)].ok
                      /\ Len(StubsBeforeLastPage) < cap[1]
           ELSE /\ listing_poems = all
                /\ Len(extractLog) \in {Len(walkLog), Len(walkLog) - 1}
                /\ \A k \in 1..Len(extractLog) : extractLog[k].url = walkLog[k]

\* C25 witness: with the cap set author A's first page held more stubs than
\* the cap; the cap's worth was returned and the page's next-page link was
\* not followed.
C25_Witness ==
    /\ AuthorHarvested
    /\ config.max_poems = <<PoemCap>>
    /\ Len(listing_poems) = PoemCap
    /\ Len(StubsOfLog(extractLog, authors[ai].name)) > PoemCap
    /\ Len(walkLog) = 1
    /\ NextLinkOf(walkLog[1]) # <<>>

\* Without a cap a walk of three pages was harvested whole.
UncappedWalkHarvested ==
    /\ AuthorHarvested
    /\ config.max_poems = <<>>
    /\ Len(extractLog) = 3
    /\ Len(listing_poems) = 4

\* C26: after any sequence of filter-change events at most one deferred
\* refresh is pending, the one the last event scheduled, each event having
\* cancelled the pending one; a refresh runs only when DEBOUNCE_MS have
\* passed since the last event, once per burst of events, and after it has
\* run no refresh is pending until the next event.
C26_OneDebouncedRefresh ==
    gui.pc = "on" =>
        /\ Cardinality(gui.timers) <= 1
        /\ gui.timers = IF gui.refresh_job = <<>> THEN {} ELSE {gui.refresh_job[1]}
        /\ gui.refresh_job # <<>> =>
              /\ gui.refresh_job[1] = gui.jobs
              /\ gui.waited[gui.jobs] = gui.sinceEvent
              /\ gui.runs = 0
        /\ gui.refresh_job = <<>> /\ gui.jobs >= 1 =>
              /\ gui.runs = 1
              /\ gui.ranAfter = << DEBOUNCE_MS >>
        /\ gui.jobs = 0 => gui.runs = 0

\* C26 witness: after several filter-change events, one at least made while a
\* refresh was pending, the refresh has run and none is pending.
C26_Witness ==
    /\ gui.pc = "on"
    /\ gui.jobs = MaxJobs
    /\ gui.cancelled >= 1
    /\ gui.runs = 1
    /\ gui.refresh_job = <<>>
    /\ gui.timers = {}

\* An event arrives while a refresh has been pending for part of the delay.
EventRestartsTheWait ==
    /\ gui.pc = "on"
    /\ gui.jobs >= 2
    /\ gui.cancelled = gui.jobs - 1
    /\ gui.refresh_job = << gui.jobs >>
    /\ gui.sinceEvent = 0

\* C16: no sequence of operations of the window changes self.poems, the
\* author index or the dataset file.
C16_GuiLeavesDataAlone ==
    gui.pc = "on" =>
        /\ gui.poems = gui.poemsAtStart
        /\ gui.by_author = gui.byAuthorAtStart
        /\ gui.files[OUTPUT_JSON] =
              [exists |-> TRUE, recs |-> DataOf(gui.poemsAtStart), complete |-> TRUE]

\* ------------------------------ further checks -------------------------
\* Without a cap on the authors no theme is read from a link to a
\* discovered author's URL (the case in which C4 holds).
UncappedNoAuthorLinkKept ==
    config.max_authors = <<>> =>
        \A kl \in keptLinks : norm_url(kl[2]) \notin AuthorUrlsNorm(discovered)

\* A dataset whose records have the constructor's five fields and no other
\* is loaded and returned without a request or a write (the case in which
\* C8 holds).
ExactFieldsFileShortCircuits ==
    (/\ fileAtStart.exists /\ fileAtStart.complete /\ fileAtStart.recs # <<>>
     /\ \A i \in 1..Len(fileAtStart.recs) :
            DOMAIN fileAtStart.recs[i] = PoemInitFields)
        => /\ requests = 0
           /\ saveLog = <<>>
           /\ file = fileAtStart
           /\ pc \in {"start", "returned", "killed"}
           /\ pc = "returned" =>
                /\ outcome = "loaded"
                /\ Len(result) = Len(fileAtStart.recs)
                /\ \A i \in 1..Len(result) :
                       InitFieldsOf(result[i]) = fileAtStart.recs[i]

\* The window leaves self.poems and the author index as they were, whatever
\* is shown, sorted or exported.
GuiLeavesMemoryAlone ==
    gui.pc = "on" =>
        /\ gui.poems = gui.poemsAtStart
        /\ gui.by_author = gui.byAuthorAtStart

\* The dataset file changes only by an export to its own path.
GuiWritesOnlyTheChosenPath ==
    [][gui.pc = "on" /\ gui'.files[OUTPUT_JSON] # gui.files[OUTPUT_JSON]
          => /\ gui'.exports = gui.exports + 1
             /\ gui'.files[OUTPUT_JSON] = [exists |-> TRUE, csv |-> gui.rows]]_vars


\* The walk of the current author is over and its last fetch, the
\* walker's own, failed.
WalkerFetchFailed ==
    /\ pc \in {"stubs", "themes", "write"} /\ wkind # "final" /\ ai <= Len(authors)
    /\ Len(walkLog) = Len(extractLog) + 1

\* When the walker's own fetch fails the walk ends at once and the stubs of
\* the pages extracted before are the author's stubs.
WalkerFailureKeepsEarlierStubs ==
    WalkerFetchFailed =>
        listing_poems = StubsOfLog(extractLog, authors[ai].name)

\* A walk was cut short by the walker's failed fetch of the second page
\* and the stubs of the first page are kept.
WalkerFailureSeen ==
    WalkerFetchFailed /\ Len(walkLog) = 2 /\ extractLog[1].ok /\ listing_poems # <<>>


====
